---------------------------- MODULE Spec2Model ----------------------------
(***************************************************************************)
(* A model of the CommitFit backend (src/backend/main.py): the skill       *)
(* extractor extract_skills_from_text, the language aggregator             *)
(* analyze_repo_languages, the scorer calculate_match_score and the        *)
(* matching/missing breakdown of get_match_report, and the endpoints       *)
(* analyze_candidate, analyze_job and get_match_report over the in-memory  *)
(* stores candidate_data and job_data.                                     *)
(*                                                                         *)
(* Strings are sequences of one-character strings, so that lower(),        *)
(* strip(), sorting and regular-expression search are computed character   *)
(* by character.  Floating-point values are fixed-point integers: a match  *)
(* score is held in hundredths (6667 is 66.67) and a language weight in    *)
(* units of 1/WeightScale.                                                 *)
(*                                                                         *)
(* The source file is indented inconsistently in two places (lines         *)
(* 189-221 and 357-374).  The model follows the statement sequence with    *)
(* the block structure the comments and the surrounding statements give:   *)
(* the keyword table and the initialisation of found_skills / text_lower   *)
(* belong to the body of extract_skills_from_text, after its early return. *)
(***************************************************************************)
EXTENDS Integers, Sequences, FiniteSets, TLC

VARIABLES
    pc,                 \* position: "start", then the name of the call made
    candidate_skills,   \* argument: the candidate's skill list (raw strings)
    job_skills,         \* argument: the job's skill list (raw strings)
    match_score,        \* result of calculate_match_score, in hundredths
    matching_skills,    \* get_match_report: MatchReport.matching_skills
    missing_skills,     \* get_match_report: MatchReport.missing_skills
    repos,              \* argument of analyze_repo_languages, with fetch outcomes
    repo_insights,      \* result of analyze_repo_languages
    text,               \* argument of extract_skills_from_text
    found,              \* result of extract_skills_from_text (a list)
    candidate_data,     \* the dict candidate_data: its items in insertion order
    job_data,           \* the dict job_data: its items in insertion order
    request,            \* the last endpoint call: its name and its argument
    response,           \* the outcome of the last endpoint call
    clock,              \* history: number of analyze_candidate calls made
    analysed,           \* history: the username the last completed analyze_candidate stored
    inserted_at,        \* history: username -> clock at which its key was created
    evicted             \* history: the keys the last analyze_candidate deleted

storeVars == << candidate_data, job_data, request, response, clock, analysed,
                inserted_at, evicted >>

vars == << pc, candidate_skills, job_skills, match_score, matching_skills,
           missing_skills, repos, repo_insights, text, found, storeVars >>

None == "None"

\* The outcome of a call: a returned value, or the exception it raised
Returned(v) == [raised |-> None, value |-> v]
Raised(e) == [raised |-> e, value |-> 0]

\* The stores as the module leaves them when it is loaded, with no call made
StoreUnused ==
    /\ candidate_data = << >>
    /\ job_data = << >>
    /\ request = [call |-> None, argument |-> << >>]
    /\ response = Raised("not called")
    /\ clock = 0
    /\ analysed = << >>
    /\ inserted_at = << >>
    /\ evicted = << >>

-----------------------------------------------------------------------------
(* Characters and strings *)

\* ord(c) for the characters the model uses
CodePoint ==
    "\t" :> 9 @@ " " :> 32 @@ "#" :> 35 @@ "+" :> 43 @@ "," :> 44 @@ "-" :> 45 @@
    "." :> 46 @@ "/" :> 47 @@ "0" :> 48 @@ "1" :> 49 @@ "2" :> 50 @@ "3" :> 51 @@
    "4" :> 52 @@ "5" :> 53 @@ "6" :> 54 @@ "7" :> 55 @@ "8" :> 56 @@ "9" :> 57 @@
    "A" :> 65 @@ "B" :> 66 @@ "C" :> 67 @@ "D" :> 68 @@ "E" :> 69 @@ "F" :> 70 @@
    "G" :> 71 @@ "H" :> 72 @@ "I" :> 73 @@ "J" :> 74 @@ "K" :> 75 @@ "L" :> 76 @@
    "M" :> 77 @@ "N" :> 78 @@ "O" :> 79 @@ "P" :> 80 @@ "Q" :> 81 @@ "R" :> 82 @@
    "S" :> 83 @@ "T" :> 84 @@ "U" :> 85 @@ "V" :> 86 @@ "W" :> 87 @@ "X" :> 88 @@
    "Y" :> 89 @@ "Z" :> 90 @@ "_" :> 95 @@ "a" :> 97 @@ "b" :> 98 @@ "c" :> 99 @@
    "d" :> 100 @@ "e" :> 101 @@ "f" :> 102 @@ "g" :> 103 @@ "h" :> 104 @@ "i" :> 105 @@
    "j" :> 106 @@ "k" :> 107 @@ "l" :> 108 @@ "m" :> 109 @@ "n" :> 110 @@ "o" :> 111 @@
    "p" :> 112 @@ "q" :> 113 @@ "r" :> 114 @@ "s" :> 115 @@ "t" :> 116 @@ "u" :> 117 @@
    "v" :> 118 @@ "w" :> 119 @@ "x" :> 120 @@ "y" :> 121 @@ "z" :> 122

\* str.lower() on one character
UpperToLower ==
    "A" :> "a" @@ "B" :> "b" @@ "C" :> "c" @@ "D" :> "d" @@ "E" :> "e" @@ "F" :> "f" @@
    "G" :> "g" @@ "H" :> "h" @@ "I" :> "i" @@ "J" :> "j" @@ "K" :> "k" @@ "L" :> "l" @@
    "M" :> "m" @@ "N" :> "n" @@ "O" :> "o" @@ "P" :> "p" @@ "Q" :> "q" @@ "R" :> "r" @@
    "S" :> "s" @@ "T" :> "t" @@ "U" :> "u" @@ "V" :> "v" @@ "W" :> "w" @@ "X" :> "x" @@
    "Y" :> "y" @@ "Z" :> "z"

LowerChar(c) == IF c \in DOMAIN UpperToLower THEN UpperToLower[c] ELSE c

\* str.lower()
Lower(s) == [i \in 1..Len(s) |-> LowerChar(s[i])]

\* the characters str.strip() removes
IsSpace(c) == c \in {" ", "\t"}

RECURSIVE LStrip(_)
LStrip(s) == IF s # << >> /\ IsSpace(Head(s)) THEN LStrip(Tail(s)) ELSE s

RECURSIVE RStrip(_)
RStrip(s) ==
    IF s # << >> /\ IsSpace(s[Len(s)]) THEN RStrip(SubSeq(s, 1, Len(s) - 1)) ELSE s

\* str.strip()
Strip(s) == RStrip(LStrip(s))

\* s < t for Python strings: lexicographic by code point
RECURSIVE StrLess(_, _)
StrLess(s, t) ==
    IF t = << >> THEN FALSE
    ELSE IF s = << >> THEN TRUE
    ELSE IF Head(s) # Head(t) THEN CodePoint[Head(s)] < CodePoint[Head(t)]
    ELSE StrLess(Tail(s), Tail(t))

\* sorted(S) / list(S).sort() for a set of strings
RECURSIVE SortedList(_)
SortedList(S) ==
    IF S = {} THEN << >>
    ELSE LET m == CHOOSE x \in S : \A y \in S \ {x} : StrLess(x, y)
         IN  << m >> \o SortedList(S \ {m})

\* set(list)
SetOf(list) == {list[i] : i \in 1..Len(list)}

\* [f(x) for x in list if p(x)], as the two comprehensions the code uses
RECURSIVE LowerStripTruthy(_)
LowerStripTruthy(list) ==
    IF list = << >> THEN << >>
    ELSE IF Head(list) # << >>
         THEN << Strip(Lower(Head(list))) >> \o LowerStripTruthy(Tail(list))
         ELSE LowerStripTruthy(Tail(list))

RECURSIVE DropEmpty(_)
DropEmpty(list) ==
    IF list = << >> THEN << >>
    ELSE IF Head(list) # << >>
         THEN << Head(list) >> \o DropEmpty(Tail(list))
         ELSE DropEmpty(Tail(list))

\* the normalisation of a skill list in calculate_match_score and get_match_report
NormalizedList(list) == DropEmpty(LowerStripTruthy(list))

-----------------------------------------------------------------------------
(* Match scorer: calculate_match_score and the breakdown of get_match_report *)

\* round(num / den, 2) in hundredths, for num / den >= 0: the quotient of
\* 100 * num by den rounded to the nearest integer, a tie going to the even
\* one; the division raises when den is zero
Round2(num, den) ==
    IF den = 0 THEN Raised("ZeroDivisionError")
    ELSE LET q == (100 * num) \div den
             r == (100 * num) % den
         IN  IF 2 * r > den THEN Returned(q + 1)
             ELSE IF 2 * r < den THEN Returned(q)
             ELSE IF q % 2 = 0 THEN Returned(q) ELSE Returned(q + 1)

calculate_match_score_NoRecheck(cand, job) ==
    IF job = << >> THEN Returned(0)
    ELSE IF cand = << >> THEN Returned(0)
    ELSE LET candidate_skills_lower == NormalizedList(cand)
             job_skills_lower == NormalizedList(job)
             matching == SetOf(candidate_skills_lower) \cap SetOf(job_skills_lower)
         IN  Round2(Cardinality(matching) * 100, Len(job_skills_lower))

calculate_match_score(cand, job) ==
    IF job = << >> THEN Returned(0)
    ELSE IF cand = << >> THEN Returned(0)
    ELSE LET candidate_skills_lower == NormalizedList(cand)
             job_skills_lower == NormalizedList(job)
             matching == SetOf(candidate_skills_lower) \cap SetOf(job_skills_lower)
         IN  IF job_skills_lower = << >> THEN Returned(0)
             ELSE Round2(Cardinality(matching) * 100, Len(job_skills_lower))

report_matching_skills(cand, job) ==
    SortedList(SetOf(NormalizedList(cand)) \cap SetOf(NormalizedList(job)))

report_missing_skills_Symmetric(cand, job) ==
    LET c == SetOf(NormalizedList(cand))
        j == SetOf(NormalizedList(job))
    IN  SortedList((j \ c) \cup (c \ j))

report_missing_skills(cand, job) ==
    SortedList(SetOf(NormalizedList(job)) \ SetOf(NormalizedList(cand)))

\* Bounds of the scorer's inputs
MaxCandidateSkills == 2
MaxJobSkills == 3

\* Raw skill strings: empty, whitespace only, mixed case, padded
RawSkills ==
    { << >>, << " " >>, << "g", "o" >>, << " ", "G", "o", " " >>,
      << "r" >>, << "c", "#" >> }

SkillLists(n) == UNION {[1..k -> RawSkills] : k \in 0..n}

InitScore ==
    /\ pc = "start"
    /\ StoreUnused
    /\ candidate_skills \in SkillLists(MaxCandidateSkills)
    /\ job_skills \in SkillLists(MaxJobSkills)
    /\ match_score = Raised("not called")
    /\ matching_skills = << >>
    /\ missing_skills = << >>
    /\ repos = << >>
    /\ repo_insights = Raised("not called")
    /\ text = << >>
    /\ found = << >>

\* a direct call of calculate_match_score
CalculateMatchScore ==
    /\ pc = "start"
    /\ pc' = "calculate_match_score"
    /\ match_score' = calculate_match_score(candidate_skills, job_skills)
    /\ UNCHANGED << candidate_skills, job_skills, matching_skills, missing_skills,
                    repos, repo_insights, text, found, storeVars >>

\* get_match_report from the point where the two skill lists are in hand
GetMatchReport ==
    /\ pc = "start"
    /\ pc' = "get_match_report"
    /\ match_score' = calculate_match_score(candidate_skills, job_skills)
    /\ matching_skills' = report_matching_skills(candidate_skills, job_skills)
    /\ missing_skills' = report_missing_skills(candidate_skills, job_skills)
    /\ UNCHANGED << candidate_skills, job_skills, repos, repo_insights, text, found, storeVars >>

NextScore == CalculateMatchScore \/ GetMatchReport

SpecScore == InitScore /\ [][NextScore]_vars

\* The normalized skill sets the claims speak of
CandidateSet == {Strip(Lower(s)) : s \in SetOf(candidate_skills)} \ {<< >>}
JobSet == {Strip(Lower(s)) : s \in SetOf(job_skills)} \ {<< >>}

\* C1: when both normalized sets are non-empty, calculate_match_score returns
\* |C \cap J| / |J| * 100 rounded to 2 decimals, J being the deduplicated job set.
C1_ScoreIsSetRatio ==
    (pc = "calculate_match_score" /\ CandidateSet # {} /\ JobSet # {}) =>
        match_score = Round2(Cardinality(CandidateSet \cap JobSet) * 100,
                             Cardinality(JobSet))

\* C2: calculate_match_score returns exactly 0.0, and does not raise, whenever
\* the normalized job set or the normalized candidate set is empty.
C2_EmptySetScoresZero ==
    (pc = "calculate_match_score" /\ (CandidateSet = {} \/ JobSet = {})) =>
        match_score = Returned(0)

C1_Witness ==
    /\ pc = "calculate_match_score"
    /\ Cardinality(JobSet) = 3
    /\ match_score = Returned(6667)

C2_Witness ==
    /\ pc = "calculate_match_score"
    /\ job_skills # << >> /\ candidate_skills # << >>
    /\ JobSet = {} /\ CandidateSet # {}
    /\ match_score = Returned(0)

IsSortedNoDup(list) ==
    \A i \in 1..Len(list) : \A j \in 1..Len(list) : i < j => StrLess(list[i], list[j])

\* C3: in a match report matching_skills is the sorted intersection of the
\* normalized sets and missing_skills the sorted difference job minus candidate:
\* disjoint, together the job set, and free of the candidate's extra skills.
C3_ReportBreakdown ==
    pc = "get_match_report" =>
        /\ IsSortedNoDup(matching_skills)
        /\ IsSortedNoDup(missing_skills)
        /\ SetOf(matching_skills) = CandidateSet \cap JobSet
        /\ SetOf(missing_skills) = JobSet \ CandidateSet
        /\ SetOf(missing_skills) \cap CandidateSet = {}
        /\ SetOf(matching_skills) \cap SetOf(missing_skills) = {}
        /\ SetOf(matching_skills) \cup SetOf(missing_skills) = JobSet
        /\ (CandidateSet \ JobSet) \cap
               (SetOf(matching_skills) \cup SetOf(missing_skills)) = {}

C3_Witness ==
    /\ pc = "get_match_report"
    /\ Len(matching_skills) = 1
    /\ Len(missing_skills) = 1
    /\ CandidateSet \ JobSet # {}

-----------------------------------------------------------------------------
(* Repository aggregator: analyze_repo_languages *)

\* most_common(10)
TopN == 10

\* Bound of the aggregator's input
MaxRepos == 3

\* The outcome of requests.get(repo['languages_url']): a 200 response, another
\* status code, or requests.exceptions.RequestException raised
FetchOutcomes == {"ok", "non200", "raise"}

Lang(l, b) == [lang |-> l, bytes |-> b]

\* Repository records, each with the language -> byte-count mapping its
\* languages_url serves (in the mapping's own order)
RepoPool ==
    { [languages_url |-> TRUE, stargazers_count |-> 5, forks_count |-> 1, size |-> 100,
       languages |-> << Lang("Python", 4), Lang("Java", 3), Lang("Go", 2),
                        Lang("Rust", 2), Lang("C", 1) >>],
      [languages_url |-> TRUE, stargazers_count |-> 0, forks_count |-> 2, size |-> 20,
       languages |-> << Lang("Kotlin", 6), Lang("Swift", 6), Lang("Scala", 4),
                        Lang("PHP", 4), Lang("Perl", 3), Lang("Lua", 1) >>],
      [languages_url |-> TRUE, stargazers_count |-> 1, forks_count |-> 0, size |-> 3,
       languages |-> << Lang("Lua", 4) >>],
      [languages_url |-> TRUE, stargazers_count |-> 2, forks_count |-> 3, size |-> 0,
       languages |-> << Lang("Python", 4) >>],
      [languages_url |-> TRUE, stargazers_count |-> 0, forks_count |-> 0, size |-> 1,
       languages |-> << Lang("Dart", 0) >>],
      [languages_url |-> FALSE, stargazers_count |-> 7, forks_count |-> 4, size |-> 9,
       languages |-> << >>] }

RECURSIVE SumBytes(_)
SumBytes(languages) ==
    IF languages = << >> THEN 0
    ELSE Head(languages).bytes + SumBytes(Tail(languages))

RECURSIVE Product(_)
Product(S) ==
    IF S = {} THEN 1
    ELSE LET x == CHOOSE y \in S : TRUE IN x * Product(S \ {x})

\* Weights are held in units of 1 / WeightScale, a common multiple of every
\* repository's total byte count, so that each share bytes / total is exact
WeightScale == Product({SumBytes(r.languages) : r \in RepoPool} \ {0})

\* language_stats[lang] += w, on a Counter kept in insertion order
CounterAdd(stats, lang, w) ==
    IF \E i \in 1..Len(stats) : stats[i].lang = lang
    THEN [i \in 1..Len(stats) |->
             IF stats[i].lang = lang
             THEN [lang |-> lang, weight |-> stats[i].weight + w]
             ELSE stats[i]]
    ELSE Append(stats, [lang |-> lang, weight |-> w])

\* the loop over repo_languages.items()
RECURSIVE AddLanguages(_, _, _)
AddLanguages(stats, languages, total_bytes) ==
    IF languages = << >> THEN stats
    ELSE LET l == Head(languages)
             w == IF total_bytes > 0
                  THEN (l.bytes * WeightScale) \div total_bytes
                  ELSE l.bytes * WeightScale
         IN  AddLanguages(CounterAdd(stats, l.lang, w), Tail(languages), total_bytes)

AddTotals(acc, stats, repo) ==
    [language_stats |-> stats,
     total_stars |-> acc.total_stars + repo.stargazers_count,
     total_forks |-> acc.total_forks + repo.forks_count,
     total_size |-> acc.total_size + repo.size]

\* One iteration with the status-code test left out
RepoStep_NoStatusCheck(acc, e) ==
    IF ~e.repo.languages_url THEN AddTotals(acc, acc.language_stats, e.repo)
    ELSE IF e.fetch = "raise" THEN acc
    ELSE AddTotals(acc,
                   AddLanguages(acc.language_stats, e.repo.languages,
                                SumBytes(e.repo.languages)),
                   e.repo)

\* One iteration of "for repo in repos": e.repo is the repository, e.fetch the
\* outcome of its language fetch.  The except clause ends the iteration with
\* "continue", before the totals are added.
RepoStep(acc, e) ==
    IF ~e.repo.languages_url THEN AddTotals(acc, acc.language_stats, e.repo)
    ELSE IF e.fetch = "raise" THEN acc
    ELSE IF e.fetch = "ok"
         THEN AddTotals(acc,
                        AddLanguages(acc.language_stats, e.repo.languages,
                                     SumBytes(e.repo.languages)),
                        e.repo)
         ELSE AddTotals(acc, acc.language_stats, e.repo)

RECURSIVE RepoLoop(_, _)
RepoLoop(acc, rs) ==
    IF rs = << >> THEN acc ELSE RepoLoop(RepoStep(acc, Head(rs)), Tail(rs))

\* sorted(items, key=weight, reverse=True): a stable sort, so entries of equal
\* weight keep their order
RECURSIVE InsertDesc_TiesFirst(_, _)
InsertDesc_TiesFirst(sorted, e) ==
    IF sorted = << >> THEN << e >>
    ELSE IF Head(sorted).weight <= e.weight THEN << e >> \o sorted
    ELSE << Head(sorted) >> \o InsertDesc_TiesFirst(Tail(sorted), e)

RECURSIVE InsertDesc(_, _)
InsertDesc(sorted, e) ==
    IF sorted = << >> THEN << e >>
    ELSE IF Head(sorted).weight < e.weight THEN << e >> \o sorted
    ELSE << Head(sorted) >> \o InsertDesc(Tail(sorted), e)

RECURSIVE SortDesc(_, _)
SortDesc(sorted, items) ==
    IF items = << >> THEN sorted
    ELSE SortDesc(InsertDesc(sorted, Head(items)), Tail(items))

most_common_Unsorted(stats, n) ==
    SubSeq(stats, 1, IF Len(stats) < n THEN Len(stats) ELSE n)

\* Counter.most_common(n)
most_common(stats, n) ==
    LET s == SortDesc(<< >>, stats)
    IN  SubSeq(s, 1, IF Len(s) < n THEN Len(s) ELSE n)

analyze_repo_languages(rs) ==
    LET acc == RepoLoop([language_stats |-> << >>, total_stars |-> 0,
                         total_forks |-> 0, total_size |-> 0], rs)
        sorted_languages == most_common(acc.language_stats, TopN)
    IN  Returned([languages |-> sorted_languages,
                  total_stars |-> acc.total_stars,
                  total_forks |-> acc.total_forks,
                  total_size |-> acc.total_size,
                  repo_count |-> Len(rs),
                  top_language |-> IF sorted_languages # << >>
                                   THEN sorted_languages[1].lang
                                   ELSE None])

\* A repository with the outcome its language fetch will have; one without
\* languages_url is never fetched, and its outcome is left at "ok"
RepoEntries ==
    {e \in [repo : RepoPool, fetch : FetchOutcomes] :
        e.repo.languages_url \/ e.fetch = "ok"}

InitAggregate ==
    /\ pc = "start"
    /\ StoreUnused
    /\ repos \in UNION {[1..k -> RepoEntries] : k \in 0..MaxRepos}
    /\ repo_insights = Raised("not called")
    /\ candidate_skills = << >>
    /\ job_skills = << >>
    /\ match_score = Raised("not called")
    /\ matching_skills = << >>
    /\ missing_skills = << >>
    /\ text = << >>
    /\ found = << >>

AnalyzeRepoLanguages ==
    /\ pc = "start"
    /\ pc' = "analyze_repo_languages"
    /\ repo_insights' = analyze_repo_languages(repos)
    /\ UNCHANGED << candidate_skills, job_skills, match_score, matching_skills,
                    missing_skills, repos, text, found, storeVars >>

NextAggregate == AnalyzeRepoLanguages

SpecAggregate == InitAggregate /\ [][NextAggregate]_vars

\* What the claims about the aggregator speak of
RECURSIVE SumOver(_, _)
SumOver(f(_), rs) == IF rs = << >> THEN 0 ELSE f(Head(rs)) + SumOver(f, Tail(rs))

Stars(e) == e.repo.stargazers_count
Forks(e) == e.repo.forks_count
Size(e) == e.repo.size

FetchSucceeded(e) == e.repo.languages_url /\ e.fetch = "ok"
FetchFailed(e) == e.repo.languages_url /\ e.fetch # "ok"

RECURSIVE Successful(_)
Successful(rs) ==
    IF rs = << >> THEN << >>
    ELSE IF FetchSucceeded(Head(rs)) THEN << Head(rs) >> \o Successful(Tail(rs))
    ELSE Successful(Tail(rs))

\* bytes / total_bytes of one language in one repository, in 1 / WeightScale
Share(e, l) ==
    LET ls == e.repo.languages
        total == SumBytes(ls)
        b == SumOver(LAMBDA x : IF x.lang = l THEN x.bytes ELSE 0, ls)
    IN  IF total > 0 THEN (b * WeightScale) \div total ELSE b * WeightScale

\* the weight a language gathers over the successfully fetched repositories
ExpectedWeight(rs, l) == SumOver(LAMBDA e : IF FetchSucceeded(e) THEN Share(e, l) ELSE 0, rs)

\* the languages the successful fetches name, in the order first encountered
RECURSIVE Encountered(_)
Encountered(rs) ==
    IF rs = << >> THEN << >>
    ELSE LET before == Encountered(SubSeq(rs, 1, Len(rs) - 1))
             e == rs[Len(rs)]
             new == IF FetchSucceeded(e)
                    THEN SelectSeq(e.repo.languages,
                                   LAMBDA x : x.lang \notin SetOf(before))
                    ELSE << >>
         IN  before \o [i \in 1..Len(new) |-> new[i].lang]

Position(list, x) == CHOOSE i \in 1..Len(list) : list[i] = x

Insights == repo_insights.value
Analyzed == pc = "analyze_repo_languages" /\ repo_insights.raised = None

\* C4: repo_count is the number of repositories and total_stars, total_forks and
\* total_size are the sums over all repositories, whatever their fetch outcome.
C4_TotalsOverAllRepos ==
    pc = "analyze_repo_languages" =>
        /\ repo_insights.raised = None
        /\ Insights.repo_count = Len(repos)
        /\ Insights.total_stars = SumOver(Stars, repos)
        /\ Insights.total_forks = SumOver(Forks, repos)
        /\ Insights.total_size = SumOver(Size, repos)

\* C5: a failed language fetch is absorbed: the call returns, and the language
\* profile is the one computed from the successfully fetched repositories alone,
\* each contributing bytes / total_bytes per language.
C5_FailedFetchAbsorbed ==
    pc = "analyze_repo_languages" =>
        /\ repo_insights.raised = None
        /\ Insights.languages = analyze_repo_languages(Successful(repos)).value.languages
        /\ \A i \in 1..Len(Insights.languages) :
               /\ Insights.languages[i].lang \in SetOf(Encountered(repos))
               /\ Insights.languages[i].weight =
                      ExpectedWeight(repos, Insights.languages[i].lang)

C5_Witness ==
    /\ Analyzed
    /\ \E i, j, k \in 1..Len(repos) :
           /\ i < j /\ j < k
           /\ FetchFailed(repos[i]) /\ repos[i].fetch = "raise"
           /\ repos[i].repo.languages # << >>
           /\ FetchSucceeded(repos[j])
           /\ FetchFailed(repos[k]) /\ repos[k].fetch = "non200"
           /\ repos[k].repo.languages # << >>
           /\ \A f \in {i, k} :
                  /\ Head(repos[f].repo.languages).bytes > 0
                  /\ \A n \in 1..Len(Insights.languages) :
                         Insights.languages[n].lang # Head(repos[f].repo.languages).lang
    /\ Insights.languages # << >>

Min(a, b) == IF a < b THEN a ELSE b

\* C6: the profile holds min(10, distinct languages) entries, the heaviest ones
\* in descending weight with ties in first-encountered order; nothing dropped
\* outweighs a retained entry; top_language is the first entry, or None.
C6_TopTenProfile ==
    Analyzed =>
        LET ls == Insights.languages
            seen == Encountered(repos)
            kept == {ls[i].lang : i \in 1..Len(ls)}
        IN  /\ Len(ls) = Min(TopN, Len(seen))
            /\ kept \subseteq SetOf(seen)
            /\ \A i \in 1..Len(ls) : ls[i].weight = ExpectedWeight(repos, ls[i].lang)
            /\ \A i, j \in 1..Len(ls) :
                   i < j =>
                       \/ ls[i].weight > ls[j].weight
                       \/ /\ ls[i].weight = ls[j].weight
                          /\ Position(seen, ls[i].lang) < Position(seen, ls[j].lang)
            /\ \A d \in SetOf(seen) \ kept : \A i \in 1..Len(ls) :
                   \/ ExpectedWeight(repos, d) < ls[i].weight
                   \/ /\ ExpectedWeight(repos, d) = ls[i].weight
                      /\ Position(seen, ls[i].lang) < Position(seen, d)
            /\ Insights.top_language = IF ls = << >> THEN None ELSE ls[1].lang

C6_Witness ==
    /\ Analyzed
    /\ Len(Encountered(repos)) > TopN
    /\ Len(Insights.languages) = TopN
    /\ Insights.languages[TopN].weight =
           ExpectedWeight(repos, Encountered(repos)[Len(Encountered(repos))])
    /\ \E i \in 1..(TopN - 1) :
           Insights.languages[i].weight = Insights.languages[i + 1].weight

\* The same repositories, with the same fetch outcomes, taken in another order
Orderings(n) == {p \in [1..n -> 1..n] : \A i, j \in 1..n : p[i] = p[j] => i = j}
Permuted(rs, p) == [i \in 1..Len(rs) |-> rs[p[i]]]

ProfileSet(languages) == SetOf(languages)

\* two languages share the highest weight
TieAtTop(rs) ==
    \E l, m \in SetOf(Encountered(rs)) :
        /\ l # m
        /\ ExpectedWeight(rs, l) = ExpectedWeight(rs, m)
        /\ \A x \in SetOf(Encountered(rs)) : ExpectedWeight(rs, x) <= ExpectedWeight(rs, l)

\* a retained and a dropped language share a weight
TieAtCutoff(rs) ==
    LET ls == analyze_repo_languages(rs).value.languages
        kept == {ls[i].lang : i \in 1..Len(ls)}
    IN  \E l \in kept : \E d \in SetOf(Encountered(rs)) \ kept :
            ExpectedWeight(rs, l) = ExpectedWeight(rs, d)

\* C7 as claimed: any permutation of the repository list gives the same retained
\* languages with the same weights and the same top_language, ties included.
C7_OrderIndependent ==
    Analyzed =>
        \A p \in Orderings(Len(repos)) :
            LET other == analyze_repo_languages(Permuted(repos, p)).value
            IN  /\ ProfileSet(other.languages) = ProfileSet(Insights.languages)
                /\ other.top_language = Insights.top_language

\* C7 (amended): any permutation gives the same retained languages with the same
\* weights unless a retained and a dropped language tie in weight, and the same
\* top_language unless two languages tie for the highest weight.
C7_OrderIndependentUnlessTied ==
    Analyzed =>
        LET others == {analyze_repo_languages(Permuted(repos, p)).value :
                           p \in Orderings(Len(repos))}
        IN  /\ ~TieAtCutoff(repos) =>
                   \A other \in others :
                       ProfileSet(other.languages) = ProfileSet(Insights.languages)
            /\ ~TieAtTop(repos) =>
                   \A other \in others : other.top_language = Insights.top_language

C7_Witness ==
    /\ Analyzed
    /\ Len(Encountered(repos)) > TopN
    /\ ~TieAtCutoff(repos)
    /\ ~TieAtTop(repos)
    /\ \E i \in 1..Len(repos) : FetchFailed(repos[i])
    /\ \E p \in Orderings(Len(repos)) :
           analyze_repo_languages(Permuted(repos, p)).value.languages # Insights.languages

-----------------------------------------------------------------------------
(* Skill extractor: extract_skills_from_text *)

\* tech_keywords, in the order of the list
tech_keywords ==
    <<
      <<"p", "y", "t", "h", "o", "n">>,
      <<"j", "a", "v", "a", "s", "c", "r", "i", "p", "t">>, <<"j", "a", "v", "a">>,
      <<"c", "+", "+">>, <<"c", "p", "p">>,
      <<"c", "p", "l", "u", "s", "p", "l", "u", "s">>, <<"c", "#">>,
      <<"c", "s", "h", "a", "r", "p">>,
      <<"t", "y", "p", "e", "s", "c", "r", "i", "p", "t">>, <<"g", "o">>,
      <<"g", "o", "l", "a", "n", "g">>, <<"r", "u", "s", "t">>,
      <<"s", "w", "i", "f", "t">>, <<"k", "o", "t", "l", "i", "n">>,
      <<"s", "c", "a", "l", "a">>, <<"r", "u", "b", "y">>, <<"p", "h", "p">>,
      <<"r">>, <<"m", "a", "t", "l", "a", "b">>, <<"p", "e", "r", "l">>,
      <<"l", "u", "a">>, <<"d", "a", "r", "t">>,
      <<"o", "b", "j", "e", "c", "t", "i", "v", "e", "-", "c">>,
      <<"o", "b", "j", "e", "c", "t", "i", "v", "e", "c">>,
      <<"r", "e", "a", "c", "t">>, <<"a", "n", "g", "u", "l", "a", "r">>,
      <<"v", "u", "e">>, <<"v", "u", "e", ".", "j", "s">>,
      <<"s", "v", "e", "l", "t", "e">>, <<"n", "e", "x", "t", ".", "j", "s">>,
      <<"n", "e", "x", "t", "j", "s">>, <<"n", "u", "x", "t">>,
      <<"e", "m", "b", "e", "r">>, <<"b", "a", "c", "k", "b", "o", "n", "e">>,
      <<"j", "q", "u", "e", "r", "y">>, <<"n", "o", "d", "e", ".", "j", "s">>,
      <<"n", "o", "d", "e", "j", "s">>, <<"e", "x", "p", "r", "e", "s", "s">>,
      <<"d", "j", "a", "n", "g", "o">>, <<"f", "l", "a", "s", "k">>,
      <<"f", "a", "s", "t", "a", "p", "i">>, <<"s", "p", "r", "i", "n", "g">>,
      <<"s", "p", "r", "i", "n", "g", " ", "b", "o", "o", "t">>,
      <<"l", "a", "r", "a", "v", "e", "l">>, <<"r", "a", "i", "l", "s">>,
      <<"r", "u", "b", "y", " ", "o", "n", " ", "r", "a", "i", "l", "s">>,
      <<"a", "s", "p", ".", "n", "e", "t">>, <<"a", "s", "p", "n", "e", "t">>,
      <<"n", "e", "s", "t", ".", "j", "s">>, <<"n", "e", "s", "t", "j", "s">>,
      <<"k", "o", "a">>, <<"h", "a", "p", "i">>,
      <<"m", "o", "n", "g", "o", "d", "b">>,
      <<"p", "o", "s", "t", "g", "r", "e", "s", "q", "l">>,
      <<"p", "o", "s", "t", "g", "r", "e", "s">>, <<"m", "y", "s", "q", "l">>,
      <<"s", "q", "l", "i", "t", "e">>, <<"r", "e", "d", "i", "s">>,
      <<"c", "a", "s", "s", "a", "n", "d", "r", "a">>,
      <<"e", "l", "a", "s", "t", "i", "c", "s", "e", "a", "r", "c", "h">>,
      <<"d", "y", "n", "a", "m", "o", "d", "b">>, <<"o", "r", "a", "c", "l", "e">>,
      <<"s", "q", "l", " ", "s", "e", "r", "v", "e", "r">>,
      <<"m", "a", "r", "i", "a", "d", "b">>, <<"n", "e", "o", "4", "j">>,
      <<"d", "o", "c", "k", "e", "r">>,
      <<"k", "u", "b", "e", "r", "n", "e", "t", "e", "s">>, <<"k", "8", "s">>,
      <<"a", "w", "s">>, <<"a", "z", "u", "r", "e">>, <<"g", "c", "p">>,
      <<"g", "o", "o", "g", "l", "e", " ", "c", "l", "o", "u", "d">>,
      <<"t", "e", "r", "r", "a", "f", "o", "r", "m">>,
      <<"a", "n", "s", "i", "b", "l", "e">>, <<"j", "e", "n", "k", "i", "n", "s">>,
      <<"g", "i", "t", "h", "u", "b", " ", "a", "c", "t", "i", "o", "n", "s">>,
      <<"g", "i", "t", "l", "a", "b", " ", "c", "i">>, <<"c", "i", "/", "c", "d">>,
      <<"c", "i", "c", "d">>, <<"d", "e", "v", "o", "p", "s">>, <<"g", "i", "t">>,
      <<"g", "i", "t", "h", "u", "b">>, <<"g", "i", "t", "l", "a", "b">>,
      <<"b", "i", "t", "b", "u", "c", "k", "e", "t">>, <<"j", "i", "r", "a">>,
      <<"c", "o", "n", "f", "l", "u", "e", "n", "c", "e">>,
      <<"r", "e", "s", "t", " ", "a", "p", "i">>,
      <<"g", "r", "a", "p", "h", "q", "l">>, <<"g", "r", "p", "c">>,
      <<"m", "i", "c", "r", "o", "s", "e", "r", "v", "i", "c", "e", "s">>,
      <<"a", "g", "i", "l", "e">>, <<"s", "c", "r", "u", "m">>,
      <<"t", "e", "n", "s", "o", "r", "f", "l", "o", "w">>,
      <<"p", "y", "t", "o", "r", "c", "h">>, <<"k", "e", "r", "a", "s">>,
      <<"p", "a", "n", "d", "a", "s">>, <<"n", "u", "m", "p", "y">>,
      <<"s", "c", "i", "k", "i", "t", "-", "l", "e", "a", "r", "n">>,
      <<"s", "c", "i", "k", "i", "t", " ", "l", "e", "a", "r", "n">>,
      <<"m", "a", "c", "h", "i", "n", "e", " ", "l", "e", "a", "r", "n", "i", "n", "g">>,
      <<"m", "l">>, <<"a", "i">>,
      <<"a", "r", "t", "i", "f", "i", "c", "i", "a", "l", " ", "i", "n", "t", "e", "l", "l", "i", "g", "e", "n", "c", "e">>,
      <<"d", "a", "t", "a", " ", "s", "c", "i", "e", "n", "c", "e">>,
      <<"d", "e", "e", "p", " ", "l", "e", "a", "r", "n", "i", "n", "g">>,
      <<"n", "e", "u", "r", "a", "l", " ", "n", "e", "t", "w", "o", "r", "k", "s">>,
      <<"o", "p", "e", "n", "c", "v">>, <<"h", "t", "m", "l">>, <<"c", "s", "s">>,
      <<"s", "a", "s", "s">>, <<"s", "c", "s", "s">>, <<"l", "e", "s", "s">>,
      <<"w", "e", "b", "p", "a", "c", "k">>, <<"b", "a", "b", "e", "l">>,
      <<"e", "s", "6">>, <<"r", "e", "d", "u", "x">>, <<"m", "o", "b", "x">>,
      <<"z", "u", "s", "t", "a", "n", "d">>
    >>

\* \w of the re module, on the characters the model uses
IsWordChar(c) ==
    \/ CodePoint[c] \in 48..57
    \/ CodePoint[c] \in 65..90
    \/ CodePoint[c] \in 97..122
    \/ c = "_"

\* whether position i of t holds a word character (no position: no)
WordAt(t, i) == i \in 1..Len(t) /\ IsWordChar(t[i])

\* \b between the characters i - 1 and i of t
Boundary(t, i) == WordAt(t, i - 1) # WordAt(t, i)

\* whether the literal kw matches t from position i on
MatchesAt(t, kw, i) ==
    /\ i + Len(kw) - 1 <= Len(t)
    /\ SubSeq(t, i, i + Len(kw) - 1) = kw

\* re.search of the escaped keyword with no boundary test at all
SearchWholeWord_Substring(kw, t) ==
    \E i \in 1..Len(t) : MatchesAt(t, kw, i)

\* re.search(r'\b' + re.escape(kw) + r'\b', t)
SearchWholeWord(kw, t) ==
    \E i \in 1..Len(t) :
        /\ Boundary(t, i)
        /\ MatchesAt(t, kw, i)
        /\ Boundary(t, i + Len(kw))

\* the symbol-bearing keyword searched as r'\bc\+\+\b'
SearchSymbol_WordBoundary(kw, t) ==
    \E i \in 1..Len(t) :
        /\ Boundary(t, i)
        /\ MatchesAt(t, kw, i)
        /\ Boundary(t, i + Len(kw))

\* re.search(r'(?<!\w)c\+\+(?!\w)', t), and the same for c#
SearchSymbol(kw, t) ==
    \E i \in 1..Len(t) :
        /\ ~WordAt(t, i - 1)
        /\ MatchesAt(t, kw, i)
        /\ ~WordAt(t, i + Len(kw))

\* cpp_patterns and csharp_patterns
cpp_found(text_lower) ==
    \/ SearchSymbol(<<"c", "+", "+">>, text_lower)
    \/ SearchWholeWord(<<"c", "p", "p">>, text_lower)
    \/ SearchWholeWord(<<"c", "p", "l", "u", "s", "p", "l", "u", "s">>, text_lower)

csharp_found(text_lower) ==
    \/ SearchSymbol(<<"c", "#">>, text_lower)
    \/ SearchWholeWord(<<"c", "s", "h", "a", "r", "p">>, text_lower)

\* the keywords the loop skips
SkippedKeywords ==
    {<<"c", "+", "+">>, <<"c", "p", "p">>, <<"c", "p", "l", "u", "s", "p", "l", "u", "s">>, <<"c", "#">>, <<"c", "s", "h", "a", "r", "p">>}

\* The keyword appended as it stands
Canonical_Identity(keyword) == keyword

\* the canonical form appended for a keyword that matched
Canonical(keyword) ==
    IF keyword \in {<<"c", "p", "p">>, <<"c", "p", "l", "u", "s", "p", "l", "u", "s">>} THEN <<"c", "+", "+">>
    ELSE IF keyword \in {<<"c", "s", "h", "a", "r", "p">>} THEN <<"c", "#">>
    ELSE IF keyword \in {<<"n", "o", "d", "e", "j", "s">>, <<"n", "o", "d", "e", ".", "j", "s">>} THEN <<"n", "o", "d", "e", ".", "j", "s">>
    ELSE IF keyword \in {<<"n", "e", "x", "t", "j", "s">>, <<"n", "e", "x", "t", ".", "j", "s">>} THEN <<"n", "e", "x", "t", ".", "j", "s">>
    ELSE IF keyword \in {<<"n", "e", "s", "t", "j", "s">>, <<"n", "e", "s", "t", ".", "j", "s">>} THEN <<"n", "e", "s", "t", ".", "j", "s">>
    ELSE IF keyword \in {<<"v", "u", "e", ".", "j", "s">>, <<"v", "u", "e">>} THEN <<"v", "u", "e">>
    ELSE IF keyword \in {<<"p", "o", "s", "t", "g", "r", "e", "s">>, <<"p", "o", "s", "t", "g", "r", "e", "s", "q", "l">>} THEN <<"p", "o", "s", "t", "g", "r", "e", "s", "q", "l">>
    ELSE IF keyword \in {<<"g", "o", "l", "a", "n", "g">>, <<"g", "o">>} THEN <<"g", "o">>
    ELSE IF keyword \in {<<"s", "c", "i", "k", "i", "t", " ", "l", "e", "a", "r", "n">>, <<"s", "c", "i", "k", "i", "t", "-", "l", "e", "a", "r", "n">>} THEN <<"s", "c", "i", "k", "i", "t", "-", "l", "e", "a", "r", "n">>
    ELSE keyword

\* the loop "for keyword in tech_keywords": the canonical form of each keyword
\* that is not skipped and is found, in the order of the list
KeywordLoop(text_lower) ==
    LET hits == SelectSeq(tech_keywords,
                          LAMBDA keyword :
                              /\ keyword \notin SkippedKeywords
                              /\ SearchWholeWord(keyword, text_lower))
    IN  [i \in 1..Len(hits) |-> Canonical(hits[i])]

\* found_skills at the return statement
found_skills(t) ==
    LET text_lower == Lower(t)
    IN  (IF cpp_found(text_lower) THEN << <<"c", "+", "+">> >> ELSE << >>)
        \o (IF csharp_found(text_lower) THEN << <<"c", "#">> >> ELSE << >>)
        \o KeywordLoop(text_lower)

\* list(set(l)): the elements of l once each, in an order the hashing decides
ListsOfSet(S) ==
    {f \in [1..Cardinality(S) -> S] : \A i, j \in 1..Cardinality(S) : f[i] = f[j] => i = j}

\* The values extract_skills_from_text may return on t
extract_skills_from_text(t) ==
    IF t = << >> \/ Strip(t) = << >> THEN {<< >>}
    ELSE ListsOfSet(SetOf(found_skills(t)))

\* Bounds of the extractor's input: a text is up to MaxPieces pieces put end to end
MaxPieces == 3
MaxForms == 2

RECURSIVE Flatten(_)
Flatten(ps) == IF ps = << >> THEN << >> ELSE Head(ps) \o Flatten(Tail(ps))

Texts(pieces, n) == {Flatten(ps) : ps \in UNION {[1..k -> pieces] : k \in 0..n}}

\* Words, parts of words and separators
BoundaryPieces ==
    {
      <<"j", "a", "v", "a">>, <<"s", "c", "r", "i", "p", "t">>,
      <<"P", "y", "t", "h", "o", "n">>, <<"g", "o">>, <<"l", "a", "n", "g">>,
      <<" ">>, <<"-">>, <<"_">>, <<"x">>, <<"3">>
    }

\* The symbol-bearing names, their spelled-out forms and what may surround them
SymbolPieces ==
    {
      <<"c", "+", "+">>, <<"C", "#">>, <<"c", "p", "p">>,
      <<"c", "s", "h", "a", "r", "p">>,
      <<"C", "P", "l", "u", "s", "P", "l", "u", "s">>, <<"a", "b">>, <<"x">>,
      <<" ">>, <<"_">>, <<"-">>, <<"+">>
    }

\* The surface forms of the synonym groups, in either case
SurfaceForms ==
    {
      <<"c", "p", "p">>, <<"c", "p", "l", "u", "s", "p", "l", "u", "s">>,
      <<"c", "+", "+">>, <<"c", "s", "h", "a", "r", "p">>, <<"c", "#">>,
      <<"n", "o", "d", "e", "j", "s">>, <<"N", "o", "d", "e", ".", "j", "s">>,
      <<"n", "e", "x", "t", "j", "s">>, <<"n", "e", "x", "t", ".", "j", "s">>,
      <<"N", "e", "s", "t", "J", "S">>, <<"n", "e", "s", "t", ".", "j", "s">>,
      <<"v", "u", "e", ".", "j", "s">>, <<"V", "u", "e">>,
      <<"p", "o", "s", "t", "g", "r", "e", "s">>,
      <<"P", "o", "s", "t", "g", "r", "e", "S", "Q", "L">>,
      <<"G", "o", "l", "a", "n", "g">>, <<"g", "o">>,
      <<"s", "c", "i", "k", "i", "t", " ", "l", "e", "a", "r", "n">>,
      <<"s", "c", "i", "k", "i", "t", "-", "l", "e", "a", "r", "n">>
    }

\* What may stand between two surface forms
Separators == {<< " " >>, << ",", " " >>, << "_" >>}

RECURSIVE Join(_, _)
Join(ps, sep) ==
    IF ps = << >> THEN << >>
    ELSE IF Len(ps) = 1 THEN Head(ps)
    ELSE Head(ps) \o sep \o Join(Tail(ps), sep)

JoinedTexts(pieces, n) ==
    {Join(ps, sep) : ps \in UNION {[1..k -> pieces] : k \in 0..n}, sep \in Separators}

InitExtract(texts) ==
    /\ pc = "start"
    /\ StoreUnused
    /\ text \in texts
    /\ found = << >>
    /\ candidate_skills = << >>
    /\ job_skills = << >>
    /\ match_score = Raised("not called")
    /\ matching_skills = << >>
    /\ missing_skills = << >>
    /\ repos = << >>
    /\ repo_insights = Raised("not called")

ExtractSkills ==
    /\ pc = "start"
    /\ pc' = "extract_skills_from_text"
    /\ found' \in extract_skills_from_text(text)
    /\ UNCHANGED << candidate_skills, job_skills, match_score, matching_skills,
                    missing_skills, repos, repo_insights, text, storeVars >>

NextExtract == ExtractSkills

InitBoundary == InitExtract(Texts(BoundaryPieces, MaxPieces))
InitSymbol == InitExtract(Texts(SymbolPieces, MaxPieces))
InitSynonym == InitExtract(JoinedTexts(SurfaceForms, MaxForms))

SpecBoundary == InitBoundary /\ [][NextExtract]_vars
SpecSymbol == InitSymbol /\ [][NextExtract]_vars
SpecSynonym == InitSynonym /\ [][NextExtract]_vars

\* What the claims about the extractor speak of
Extracted == pc = "extract_skills_from_text"

\* letters and digits
IsAlnum(c) ==
    \/ CodePoint[c] \in 48..57
    \/ CodePoint[c] \in 65..90
    \/ CodePoint[c] \in 97..122

\* t holds an occurrence of kw with no character of the class W right before it
\* and none right after it
Delimited(kw, t, W(_)) ==
    \E i \in 1..(Len(t) - Len(kw) + 1) :
        /\ \A k \in 1..Len(kw) : t[i + k - 1] = kw[k]
        /\ (i = 1 \/ ~W(t[i - 1]))
        /\ (i + Len(kw) > Len(t) \/ ~W(t[i + Len(kw)]))

\* The synonym folding table: canonical form <- surface forms
SynonymGroups ==
    {
      [canonical |-> <<"c", "+", "+">>,
       forms |-> {<<"c", "p", "p">>, <<"c", "p", "l", "u", "s", "p", "l", "u", "s">>, <<"c", "+", "+">>}],
      [canonical |-> <<"c", "#">>,
       forms |-> {<<"c", "s", "h", "a", "r", "p">>, <<"c", "#">>}],
      [canonical |-> <<"n", "o", "d", "e", ".", "j", "s">>,
       forms |-> {<<"n", "o", "d", "e", "j", "s">>, <<"n", "o", "d", "e", ".", "j", "s">>}],
      [canonical |-> <<"n", "e", "x", "t", ".", "j", "s">>,
       forms |-> {<<"n", "e", "x", "t", "j", "s">>, <<"n", "e", "x", "t", ".", "j", "s">>}],
      [canonical |-> <<"n", "e", "s", "t", ".", "j", "s">>,
       forms |-> {<<"n", "e", "s", "t", "j", "s">>, <<"n", "e", "s", "t", ".", "j", "s">>}],
      [canonical |-> <<"v", "u", "e">>,
       forms |-> {<<"v", "u", "e", ".", "j", "s">>, <<"v", "u", "e">>}],
      [canonical |-> <<"p", "o", "s", "t", "g", "r", "e", "s", "q", "l">>,
       forms |-> {<<"p", "o", "s", "t", "g", "r", "e", "s">>, <<"p", "o", "s", "t", "g", "r", "e", "s", "q", "l">>}],
      [canonical |-> <<"g", "o">>,
       forms |-> {<<"g", "o", "l", "a", "n", "g">>, <<"g", "o">>}],
      [canonical |-> <<"s", "c", "i", "k", "i", "t", "-", "l", "e", "a", "r", "n">>,
       forms |-> {<<"s", "c", "i", "k", "i", "t", " ", "l", "e", "a", "r", "n">>, <<"s", "c", "i", "k", "i", "t", "-", "l", "e", "a", "r", "n">>}]
    }

FoldedTo(k) ==
    IF \E g \in SynonymGroups : k \in g.forms
    THEN (CHOOSE g \in SynonymGroups : k \in g.forms).canonical
    ELSE k

NonCanonicalForms == UNION {g.forms \ {g.canonical} : g \in SynonymGroups}
CanonicalIds == {FoldedTo(k) : k \in SetOf(tech_keywords)}

\* the keywords without ++ or #, and without the spelled-out forms of those
OrdinaryKeywords == SetOf(tech_keywords) \ UNION {g.forms : g \in {h \in SynonymGroups :
                        h.canonical \in {<<"c", "+", "+">>, <<"c", "#">>}}}

\* the identifier of ordinary keyword k is reported exactly when the lowercased
\* text holds a surface form of it delimited by characters outside the class W
ReportedIffDelimited(W(_)) ==
    LET t == Lower(text)
        occurring == {s \in OrdinaryKeywords : Delimited(s, t, W)}
        reported == {FoldedTo(s) : s \in occurring}
    IN  \A k \in OrdinaryKeywords :
            (FoldedTo(k) \in SetOf(found)) <=> (FoldedTo(k) \in reported)

\* C8 as claimed: an ordinary keyword is reported exactly when the lowercased
\* text holds an occurrence of it that no alphanumeric character precedes or
\* follows, so that an underscore delimits a keyword like a space does.
C8_AlnumDelimited == Extracted => ReportedIffDelimited(IsAlnum)

\* C8 (amended): an ordinary keyword's canonical identifier is reported exactly
\* when the lowercased text holds an occurrence of the keyword, or of a synonym
\* of it, that no word character (letter, digit or underscore) precedes or follows.
C8_WordDelimited == Extracted => ReportedIffDelimited(IsWordChar)

C8_Witness ==
    /\ Extracted
    /\ Lower(text) = <<"j", "a", "v", "a", "s", "c", "r", "i", "p", "t">>
    /\ found = << <<"j", "a", "v", "a", "s", "c", "r", "i", "p", "t">> >>

\* C9: c++ (c#) is reported exactly when the literal token occurs with no word
\* character right before the c and none right after the symbol, or a whole-word
\* cpp or cplusplus (csharp) occurs; "abc++x" yields nothing.
C9_SymbolKeywords ==
    Extracted =>
        LET t == Lower(text)
        IN  /\ (<<"c", "+", "+">> \in SetOf(found)) <=>
                   \/ Delimited(<<"c", "+", "+">>, t, IsWordChar)
                   \/ Delimited(<<"c", "p", "p">>, t, IsWordChar)
                   \/ Delimited(<<"c", "p", "l", "u", "s", "p", "l", "u", "s">>, t, IsWordChar)
            /\ (<<"c", "#">> \in SetOf(found)) <=>
                   \/ Delimited(<<"c", "#">>, t, IsWordChar)
                   \/ Delimited(<<"c", "s", "h", "a", "r", "p">>, t, IsWordChar)
            /\ t = <<"a", "b", "c", "+", "+", "x">> => found = << >>

C9_Witness ==
    /\ Extracted
    /\ Lower(text) = <<"a", "b">> \o << " " >> \o <<"c", "+", "+">>
    /\ found = << <<"c", "+", "+">> >>

NoDuplicates(list) ==
    \A i, j \in 1..Len(list) : list[i] = list[j] => i = j

\* C10: the result is free of duplicates and holds canonical identifiers only:
\* each surface form of a synonym group, alone or delimited in the text, yields
\* the group's canonical identifier, and no non-canonical form is ever returned.
C10_CanonicalOnly ==
    Extracted =>
        /\ NoDuplicates(found)
        /\ SetOf(found) \subseteq CanonicalIds
        /\ SetOf(found) \cap NonCanonicalForms = {}
        /\ \A g \in SynonymGroups : \A s \in g.forms :
               /\ Lower(text) = s => SetOf(found) = {g.canonical}
               /\ Delimited(s, Lower(text), IsWordChar) => g.canonical \in SetOf(found)

C10_Witness ==
    /\ Extracted
    /\ Lower(text) = <<"n", "o", "d", "e", "j", "s">> \o << " " >> \o <<"n", "o", "d", "e", ".", "j", "s">>
    /\ found = << <<"n", "o", "d", "e", ".", "j", "s">> >>


-----------------------------------------------------------------------------
(* The endpoints and the in-memory stores candidate_data and job_data *)

MAX_CANDIDATES_IN_MEMORY == 100

\* A dict is the sequence of its items in insertion order.  k in d
HasKey(d, k) == \E i \in 1..Len(d) : d[i].key = k

\* d[k]
DictGet(d, k) == d[CHOOSE i \in 1..Len(d) : d[i].key = k].value

\* d[k] = v: a key already present keeps its place, a new one goes last
DictSet(d, k, v) ==
    IF HasKey(d, k)
    THEN [i \in 1..Len(d) |-> IF d[i].key = k THEN [key |-> k, value |-> v] ELSE d[i]]
    ELSE Append(d, [key |-> k, value |-> v])

\* An Optional[str] is a sequence of at most one string: << >> is None
Some(x) == << x >>

\* re.match(r'^[a-zA-Z0-9]([a-zA-Z0-9-]*[a-zA-Z0-9])?$', username)
UsernameAlnum(c) ==
    /\ c \in DOMAIN CodePoint
    /\ \/ CodePoint[c] \in 48..57
       \/ CodePoint[c] \in 65..90
       \/ CodePoint[c] \in 97..122

ValidUsername(username) ==
    /\ username # << >>
    /\ UsernameAlnum(username[1])
    /\ UsernameAlnum(username[Len(username)])
    /\ \A i \in 1..Len(username) : UsernameAlnum(username[i]) \/ username[i] = "-"

\* fetch_user_repos on the outcome net of its request to the GitHub API
fetch_user_repos(net) ==
    IF net.outcome = "rate_limited" THEN Raised("HTTPException 429")
    ELSE IF net.outcome = "timeout" THEN Raised("HTTPException 408")
    ELSE IF net.outcome = "error" THEN Raised("HTTPException 400")
    ELSE Returned(net.repos)

\* The language names of the repository records, character by character
Spell ==
    "Python" :> <<"P", "y", "t", "h", "o", "n">> @@ "Java" :> <<"J", "a", "v", "a">> @@
    "Go" :> <<"G", "o">> @@ "Rust" :> <<"R", "u", "s", "t">> @@ "C" :> <<"C">> @@
    "Kotlin" :> <<"K", "o", "t", "l", "i", "n">> @@ "Swift" :> <<"S", "w", "i", "f", "t">> @@
    "Scala" :> <<"S", "c", "a", "l", "a">> @@ "PHP" :> <<"P", "H", "P">> @@
    "Perl" :> <<"P", "e", "r", "l">> @@ "Lua" :> <<"L", "u", "a">> @@
    "Dart" :> <<"D", "a", "r", "t">>

\* list(repo_insights['languages'].keys())
LanguageKeys(languages) == [i \in 1..Len(languages) |-> Spell[languages[i].lang]]


\* A user's repositories as the GitHub API lists them
NoRepos == << >>

OneRepo ==
    << [repo |-> [languages_url |-> TRUE, stargazers_count |-> 2, forks_count |-> 3,
                  size |-> 0, languages |-> << Lang("Python", 4) >>,
                  name |-> <<"g", "o", "-", "a", "p", "i">>,
                  description |-> <<"N", "o", "n", "e">>,
                  topics |-> << >>],
        fetch |-> "ok"] >>

\* The job_description values of the requests
JobDescriptions ==
    { << >>, <<" ">>,
      <<"G", "o", " ", "a", "n", "d", " ", "J", "a", "v", "a">> }

\* The texts the requests hand to extract_skills_from_text, each with one
\* list it may return for it, computed once
ExtractedTexts ==
    {<< t, CHOOSE l \in extract_skills_from_text(t) : TRUE >> :
        t \in {Strip(d) : d \in JobDescriptions}
              \cup {OneRepo[i].repo.name \o <<" ">> \o OneRepo[i].repo.description :
                       i \in 1..Len(OneRepo)}}

\* One list extract_skills_from_text may return on t; every use below is
\* followed by set(...), so the order taken is immaterial
ExtractedFrom(t) ==
    IF \E p \in ExtractedTexts : p[1] = t
    THEN (CHOOSE p \in ExtractedTexts : p[1] = t)[2]
    ELSE CHOOSE l \in extract_skills_from_text(t) : TRUE

\* the loop over repos that extends candidate_skills from names and descriptions
RECURSIVE NameSkills(_)
NameSkills(rs) ==
    IF rs = << >> THEN << >>
    ELSE LET repo == Head(rs).repo
         IN  ExtractedFrom(repo.name \o <<" ">> \o repo.description)
             \o NameSkills(Tail(rs))

\* the loop over repos that extends candidate_skills from topics
RECURSIVE TopicSkills(_)
TopicSkills(rs) ==
    IF rs = << >> THEN << >>
    ELSE LET topics == Head(rs).repo.topics
         IN  (IF topics # << >> THEN ExtractedFrom(Join(topics, <<" ">>)) ELSE << >>)
             \o TopicSkills(Tail(rs))

\* [skill.strip().lower() for skill in l if skill and skill.strip()]
RECURSIVE StripLowerNonBlank(_)
StripLowerNonBlank(l) ==
    IF l = << >> THEN << >>
    ELSE IF Head(l) # << >> /\ Strip(Head(l)) # << >>
         THEN << Lower(Strip(Head(l))) >> \o StripLowerNonBlank(Tail(l))
         ELSE StripLowerNonBlank(Tail(l))

\* The cleanup deleting the newest key instead of the oldest
CleanUp_PopLast(cd) ==
    IF Len(cd) > MAX_CANDIDATES_IN_MEMORY
    THEN [candidate_data |-> SubSeq(cd, 1, Len(cd) - 1), evicted |-> << cd[Len(cd)].key >>]
    ELSE [candidate_data |-> cd, evicted |-> << >>]

\* if len(candidate_data) > MAX_CANDIDATES_IN_MEMORY: delete next(iter(candidate_data))
CleanUp(cd) ==
    IF Len(cd) > MAX_CANDIDATES_IN_MEMORY
    THEN [candidate_data |-> Tail(cd), evicted |-> << cd[1].key >>]
    ELSE [candidate_data |-> cd, evicted |-> << >>]

\* The outcomes analyze_candidate may have on the request's github_username,
\* the outcome net of the GitHub request and the store cd: the store it leaves,
\* its response and the keys it deleted
analyze_candidate(github_username, net, cd) ==
    LET username == Strip(github_username)
        failed(e) == {[candidate_data |-> cd, response |-> Raised(e), evicted |-> << >>]}
    IN  IF username = << >> THEN failed("HTTPException 400")
        ELSE IF ~ValidUsername(username) THEN failed("HTTPException 400")
        ELSE LET fetched == fetch_user_repos(net)
             IN  IF fetched.raised # None THEN failed(fetched.raised)
                 ELSE LET rs == fetched.value
                          insights == analyze_repo_languages(rs).value
                          skills == StripLowerNonBlank(LanguageKeys(insights.languages)
                                                       \o NameSkills(rs) \o TopicSkills(rs))
                      IN  {LET kept == CleanUp(DictSet(cd, username,
                                                      [skills |-> l, repo_insights |-> insights]))
                           IN  [candidate_data |-> kept.candidate_data,
                                response |-> Returned([status |-> "success",
                                                       candidate_skills |-> l,
                                                       repo_insights |-> insights,
                                                       username |-> username,
                                                       skill_count |-> Len(l)]),
                                evicted |-> kept.evicted]
                           : l \in ListsOfSet(SetOf(skills))}

\* analyze_job on the request's job_description and the store jd
analyze_job(job_description, jd) ==
    LET job_desc == Strip(job_description)
    IN  IF job_desc = << >>
        THEN [job_data |-> jd, response |-> Raised("HTTPException 400")]
        ELSE LET skills == SortedList(SetOf(StripLowerNonBlank(ExtractedFrom(job_desc))))
             IN  [job_data |-> DictSet(jd, "current_job",
                                       [skills |-> skills,
                                        description |-> job_description,
                                        github_token |-> None]),
                  response |-> Returned([status |-> "success",
                                         job_skills |-> skills,
                                         skill_count |-> Len(skills),
                                         top_skills |-> SubSeq(skills, 1, Min(Len(skills), 5))])]

\* list(candidate_data.keys())[-1]
FallbackUsername(cd) == cd[Len(cd)].key

\* The candidate get_match_report picks for the query parameter username (an
\* Optional[str]): the one asked for when it is in the store, else the last
\* key of the store; << >> when the store is empty
LatestCandidateUsername(username, cd) ==
    IF username # << >> /\ username[1] # << >> /\ HasKey(cd, username[1])
    THEN Some(username[1])
    ELSE IF cd # << >> THEN Some(FallbackUsername(cd))
    ELSE << >>

\* get_match_report on the query parameter username and the stores
get_match_report(username, cd, jd) ==
    IF jd = << >> THEN Raised("HTTPException 400")
    ELSE IF LatestCandidateUsername(username, cd) = << >> THEN Raised("HTTPException 400")
    ELSE IF ~HasKey(jd, "current_job") THEN Raised("HTTPException 400")
    ELSE LET latest_candidate_username == LatestCandidateUsername(username, cd)[1]
             latest_candidate == DictGet(cd, latest_candidate_username)
             current_job == DictGet(jd, "current_job")
             score == calculate_match_score(latest_candidate.skills, current_job.skills)
         IN  IF score.raised # None THEN score
             ELSE Returned([username |-> latest_candidate_username,
                            match_score |-> score.value,
                            matching_skills |-> report_matching_skills(latest_candidate.skills,
                                                                       current_job.skills),
                            missing_skills |-> report_missing_skills(latest_candidate.skills,
                                                                     current_job.skills),
                            candidate_skills |-> SortedList(SetOf(latest_candidate.skills)),
                            job_skills |-> SortedList(SetOf(current_job.skills)),
                            repo_insights |-> latest_candidate.repo_insights])

\* Bound on the analyze_candidate calls of a run
MaxCalls == 3

RECURSIVE Digits(_)
Digits(n) ==
    IF n < 10 THEN << <<"0", "1", "2", "3", "4", "5", "6", "7", "8", "9">>[n + 1] >>
    ELSE Digits(n \div 10) \o Digits(n % 10)

\* The n-th GitHub user of the runs
UserName(n) == <<"u">> \o Digits(n)

\* The github_username values of the requests: the oldest user of a filled
\* store, two users beyond it (one sent with surrounding blanks), and
\* usernames the validation turns down
UsernameInputs ==
    { UserName(1),
      UserName(MAX_CANDIDATES_IN_MEMORY + 1),
      <<" ">> \o UserName(MAX_CANDIDATES_IN_MEMORY + 2) \o <<" ">>,
      <<" ">>, <<"-", "a">> }

\* The outcomes of the request fetch_user_repos makes
NetworkOutcomes ==
    { [outcome |-> "ok", repos |-> NoRepos],
      [outcome |-> "ok", repos |-> OneRepo],
      [outcome |-> "rate_limited", repos |-> NoRepos],
      [outcome |-> "timeout", repos |-> NoRepos],
      [outcome |-> "error", repos |-> NoRepos] }

\* The username query parameters of match_report requests
UsernameQueries ==
    { << >>, Some(<< >>), Some(UserName(1)),
      Some(UserName(MAX_CANDIDATES_IN_MEMORY + 1)),
      Some(<<" ">> \o UserName(MAX_CANDIDATES_IN_MEMORY + 2) \o <<" ">>) }

\* The item analyze_candidate stores for user n when the user has no repository
StoredItem(n) ==
    LET r == CHOOSE x \in analyze_candidate(UserName(n),
                                            [outcome |-> "ok", repos |-> NoRepos],
                                            << >>) : TRUE
    IN  r.candidate_data[1]

\* The store after analyze_candidate has completed for users 1..k in turn,
\* k <= MAX_CANDIDATES_IN_MEMORY: each call appends the item of a new key
StoreAfter(k) == [i \in 1..k |-> StoredItem(i)]

\* The numbers of users analysed before a run starts
StoreSizes == {0, MAX_CANDIDATES_IN_MEMORY - 1, MAX_CANDIDATES_IN_MEMORY}

InitStore ==
    /\ pc = "start"
    /\ candidate_skills = << >>
    /\ job_skills = << >>
    /\ match_score = Raised("not called")
    /\ matching_skills = << >>
    /\ missing_skills = << >>
    /\ repos = << >>
    /\ repo_insights = Raised("not called")
    /\ text = << >>
    /\ found = << >>
    /\ \E k \in StoreSizes :
          /\ candidate_data = StoreAfter(k)
          /\ analysed = IF k = 0 THEN << >> ELSE Some(UserName(k))
          /\ inserted_at = [u \in {UserName(i) : i \in 1..k} |->
                               (CHOOSE i \in 1..k : UserName(i) = u) - k]
    /\ job_data = << >>
    /\ request = [call |-> None, argument |-> << >>]
    /\ response = Raised("not called")
    /\ clock = 0
    /\ evicted = << >>

idleVars == << candidate_skills, job_skills, match_score, matching_skills,
               missing_skills, repos, repo_insights, text, found >>

\* POST /analyze_candidate
AnalyzeCandidate ==
    /\ clock < MaxCalls
    /\ \E github_username \in UsernameInputs, net \in NetworkOutcomes :
         \E r \in analyze_candidate(github_username, net, candidate_data) :
            LET username == Strip(github_username)
                completed == r.response.raised = None
            IN  /\ pc' = "analyze_candidate"
                /\ request' = [call |-> "analyze_candidate", argument |-> Some(github_username)]
                /\ candidate_data' = r.candidate_data
                /\ response' = r.response
                /\ evicted' = r.evicted
                /\ clock' = clock + 1
                /\ analysed' = IF completed THEN Some(username) ELSE analysed
                /\ inserted_at' = IF completed /\ ~HasKey(candidate_data, username)
                                  THEN (username :> clock + 1) @@ inserted_at
                                  ELSE inserted_at
    /\ UNCHANGED << job_data, idleVars >>

\* POST /analyze_job
AnalyzeJob ==
    /\ \E job_description \in JobDescriptions :
         LET r == analyze_job(job_description, job_data)
         IN  /\ pc' = "analyze_job"
             /\ request' = [call |-> "analyze_job", argument |-> Some(job_description)]
             /\ job_data' = r.job_data
             /\ response' = r.response
    /\ UNCHANGED << candidate_data, clock, analysed, inserted_at, evicted, idleVars >>

\* GET /match_report
MatchReportRequest ==
    /\ \E username \in UsernameQueries :
         /\ pc' = "get_match_report"
         /\ request' = [call |-> "get_match_report", argument |-> username]
         /\ response' = get_match_report(username, candidate_data, job_data)
    /\ UNCHANGED << candidate_data, job_data, clock, analysed, inserted_at, evicted, idleVars >>

NextStore == AnalyzeCandidate \/ AnalyzeJob \/ MatchReportRequest

SpecStore == InitStore /\ [][NextStore]_vars

\* What the claims about the stores speak of
ReportRequested == pc = "get_match_report" /\ response.raised = None

UsernameGivenAndStored ==
    /\ request.argument # << >>
    /\ HasKey(candidate_data, request.argument[1])

\* C11: after any sequence of analyze_candidate calls, a match_report call with
\* no username, or with a username that is not in the store, reports on the
\* candidate that was most recently analysed.
C11_ReportsMostRecentlyAnalysed ==
    (ReportRequested /\ ~UsernameGivenAndStored) =>
        /\ response.value.username = analysed[1]
        /\ response.value.candidate_skills =
               SortedList(SetOf(DictGet(candidate_data, analysed[1]).skills))

\* the fallback taken after a candidate other than the last key was re-analysed
C11_Witness ==
    /\ ReportRequested
    /\ request.argument = << >>
    /\ analysed = Some(UserName(1))
    /\ Len(candidate_data) > 1

\* C12: after every completed analyze_candidate call the store holds at most
\* MAX_CANDIDATES_IN_MEMORY entries; an insertion that pushes it over the limit
\* evicts exactly one entry, the one whose key was inserted earliest, and never
\* the candidate just analysed.
C12_BoundedFifoStore ==
    /\ Len(candidate_data) <= MAX_CANDIDATES_IN_MEMORY
    /\ (pc = "analyze_candidate" /\ response.raised = None) =>
          /\ Len(evicted) <= 1
          /\ Len(candidate_data) + Len(evicted) > MAX_CANDIDATES_IN_MEMORY => Len(evicted) = 1
          /\ \A i \in 1..Len(evicted) :
                /\ evicted[i] # analysed[1]
                /\ ~HasKey(candidate_data, evicted[i])
                /\ \A j \in 1..Len(candidate_data) :
                      inserted_at[evicted[i]] < inserted_at[candidate_data[j].key]
          /\ HasKey(candidate_data, analysed[1])

\* a user evicted earlier is analysed again, and the next oldest user goes
C12_Witness ==
    /\ pc = "analyze_candidate"
    /\ response.raised = None
    /\ analysed = Some(UserName(1))
    /\ evicted = << UserName(2) >>
    /\ Len(candidate_data) = MAX_CANDIDATES_IN_MEMORY

=============================================================================
